---- MODULE Spec2Model ----
(***************************************************************************)
(* Tiered price resolution (backend-integration.js) and the token-gated    *)
(* refresh function (netlify/functions/refresh-prices.js).                 *)
(*                                                                         *)
(* Conventions.  A JavaScript string that the code inspects (lower-cases,  *)
(* trims, searches) is a sequence of text fragments, so that concatenation *)
(* is \o and includes/startsWith/trim are computed on the fragments.       *)
(* Money is in cents.  A JavaScript object is a record; an absent property *)
(* is an absent field.  null and undefined are the records Null and        *)
(* Undefined.                                                              *)
(***************************************************************************)
EXTENDS Integers, Sequences, FiniteSets, TLC

\* ------------------------------------------------------------------ values
Null == [t |-> "null"]
Undefined == [t |-> "undefined"]
Str(s) == [t |-> "str", s |-> s]

\* template-literal / argument coercion of a value to a string
JsString(v) ==
  IF v = Null THEN <<"null">>
  ELSE IF v = Undefined THEN <<"undefined">>
  ELSE v.s

\* String.prototype.includes
Includes(s, sub) ==
  \E i \in 1..(Len(s) - Len(sub) + 1) : SubSeq(s, i, i + Len(sub) - 1) = sub

\* String.prototype.startsWith
StartsWith(s, p) == Len(s) >= Len(p) /\ SubSeq(s, 1, Len(p)) = p

SetMin(S) == CHOOSE x \in S : \A y \in S : x <= y
SetMax(S) == CHOOSE x \in S : \A y \in S : x >= y

\* String.prototype.trim: drops leading and trailing white space
Trim(s) ==
  LET keep == {i \in 1..Len(s) : s[i] # " "}
  IN IF keep = {} THEN <<>> ELSE SubSeq(s, SetMin(keep), SetMax(keep))

LowerFragment(c) ==
  CASE c = "Cancun" -> "cancun"
    [] c = "CANCUN" -> "cancun"
    [] c = "Cabo San Lucas" -> "cabo san lucas"
    [] c = "Punta Cana" -> "punta cana"
    [] c = "Tulum" -> "tulum"
    [] c = "Booking" -> "booking"
    [] c = "Expedia" -> "expedia"
    [] c = "Hotels" -> "hotels"
    [] c = "Despegar" -> "despegar"
    [] c = "Kayak" -> "kayak"
    [] OTHER -> c

\* String.prototype.toLowerCase
ToLowerCase(s) == [i \in DOMAIN s |-> LowerFragment(s[i])]

\* ---------------------------------------------------------- configuration
FunctionsPath == <<"/.netlify/functions">>
CheckPricesPath == <<"/check-prices">>
Timeout == 20000

\* the page origins considered: an ordinary one and one whose text contains
\* the letters "null"
OriginPlain == <<"https://uvc.netlify.app">>
OriginWithNull == <<"https://", "null", "fare.netlify.app">>
PrimaryBase == <<"https://api.example.com">>

\* the host environment the script is loaded in
Envs ==
  [hasWindow : BOOLEAN, github : BOOLEAN,
   origin : {OriginPlain, OriginWithNull},
   backendUrl : {Undefined, Str(<<" ">>), Str(<<" ">> \o PrimaryBase \o <<" ">>)}]

BACKEND_CONFIG(env) ==
  [isGithubPages |-> env.hasWindow /\ env.github,
   apiUrlPrimary |->
     IF /\ env.hasWindow
        /\ env.backendUrl # Undefined
        /\ Trim(env.backendUrl.s) # <<>>
        /\ ~env.github
     THEN Str(Trim(env.backendUrl.s)) ELSE Null,
   apiUrlFallback |->
     IF env.hasWindow /\ ~env.github
     THEN Str(env.origin \o FunctionsPath) ELSE Null,
   timeout |-> Timeout,
   mode |-> IF env.hasWindow /\ env.github THEN "static" ELSE "hybrid"]

resolveApiUrl(c) ==
  IF c.isGithubPages \/ c.mode = "static" THEN Null
  ELSE IF c.apiUrlPrimary # Null THEN c.apiUrlPrimary ELSE c.apiUrlFallback

\* ------------------------------------------------------------ static cache
NowIso == "now"

EntryCancun ==
  [destination |-> <<"Cancun">>, checkin |-> "2025-06-01",
   checkout |-> "2025-06-05", nights |-> 4,
   sources |-> [booking |-> [price |-> 20000], expedia |-> [price |-> 19000]],
   metrics |-> [lowest_price |-> 19000, average_price |-> 19500]]
EntryCancunUpper ==
  [destination |-> <<"CANCUN">>, generated_at |-> "2025-05-01T00:00:00Z",
   sources |-> [booking |-> [price |-> 21000], despegar |-> [price |-> 18000]],
   metrics |-> [lowest_price |-> 18000, average_price |-> 19500]]
EntryTulumBare == [destination |-> <<"Tulum">>]
EntryNoDestination == [sources |-> [booking |-> [price |-> 15000]]]
\* an entry with prices and no metrics
EntryPuntaCanaNoMetrics ==
  [destination |-> <<"Punta Cana">>,
   sources |-> [booking |-> [price |-> 15000], expedia |-> [price |-> 16000]]]
\* an entry whose lowest price is negative
EntryPuntaCanaNegative ==
  [destination |-> <<"Punta Cana">>,
   sources |-> [booking |-> [price |-> 15000]],
   metrics |-> [lowest_price |-> 0 - 500, average_price |-> 16000]]

\* parsed bodies of prices-cache.json
Snapshots ==
  {Null,
   [generated_at |-> "2025-05-01T00:00:00Z"],
   [entries |-> <<>>],
   [entries |-> <<EntryCancun>>],
   [entries |-> <<EntryCancunUpper, EntryCancun>>],
   [entries |-> <<EntryTulumBare, EntryCancun>>],
   [entries |-> <<EntryCancun, EntryNoDestination>>],
   [entries |-> <<EntryNoDestination, EntryCancun>>],
   [entries |-> <<EntryPuntaCanaNoMetrics>>],
   [entries |-> <<EntryPuntaCanaNegative>>]}

\* what the fetch of prices-cache.json can do
CacheFetches ==
  {[k |-> "reject"], [k |-> "notok"], [k |-> "unparsable"]}
    \cup {[k |-> "json", v |-> s] : s \in Snapshots}

\* loadPricesCache: the value the promise resolves to
loadPricesCache(f) == IF f.k = "json" THEN f.v ELSE Null

Value(v) == [k |-> "value", v |-> v]
\* a thrown exception: the name of the error and its message
ThrowAs(n, m) == [k |-> "throw", name |-> n, message |-> m]
\* throw new Error(m)
Throw(m) == ThrowAs("Error", m)

\* findCachedEntry: Array.prototype.find evaluates the predicate in order;
\* an entry without a destination makes e.destination.toLowerCase() throw
findCachedEntry(cache, destination, checkin, checkout) ==
  IF cache = Null \/ "entries" \notin DOMAIN cache THEN Value(Null)
  ELSE
    LET es == cache.entries
        destLower == ToLowerCase(destination)
        bad == {i \in DOMAIN es : "destination" \notin DOMAIN es[i]}
        hit == {i \in DOMAIN es : /\ "destination" \in DOMAIN es[i]
                                  /\ ToLowerCase(es[i].destination) = destLower}
    IN IF bad # {} /\ (hit = {} \/ SetMin(bad) < SetMin(hit))
       THEN ThrowAs("TypeError", "Cannot read properties of undefined")
       ELSE IF hit = {} THEN Value(Undefined)
       ELSE Value(es[SetMin(hit)])

\* entry.f || d for a numeric property
NumOr(rec, f, d) == IF f \in DOMAIN rec /\ rec[f] # 0 THEN rec[f] ELSE d
\* entry.f || d for a string property
StrOr(rec, f, d) == IF f \in DOMAIN rec /\ rec[f] # "" THEN rec[f] ELSE d
\* entry.sources?.name?.price || 0
SourcePrice(entry, name) ==
  IF /\ "sources" \in DOMAIN entry
     /\ name \in DOMAIN entry.sources
  THEN NumOr(entry.sources[name], "price", 0) ELSE 0
\* entry.metrics?.f || 0
Metric(entry, f) ==
  IF "metrics" \in DOMAIN entry THEN NumOr(entry.metrics, f, 0) ELSE 0

formatCacheEntry(entry) ==
  [destination |-> entry.destination,
   checkin |-> StrOr(entry, "checkin", ""),
   checkout |-> StrOr(entry, "checkout", ""),
   nights |-> NumOr(entry, "nights", 0),
   timestamp |-> StrOr(entry, "generated_at", NowIso),
   prices |-> [booking |-> SourcePrice(entry, "booking"),
               expedia |-> SourcePrice(entry, "expedia"),
               hotels |-> SourcePrice(entry, "hotels"),
               despegar |-> SourcePrice(entry, "despegar")],
   hotels |-> <<>>,
   lowestPrice |-> Metric(entry, "lowest_price"),
   averagePrice |-> Metric(entry, "average_price")]

\* ------------------------------------------------------ remote quote bodies
\* success bodies of the quote endpoint (the check-prices function's shape)
BodyMock ==
  [destination |-> <<"Cancun">>, checkin |-> "2025-06-01",
   checkout |-> "2025-06-05", nights |-> 4,
   results |-> <<[source |-> <<"Booking", ".com">>, hotel_name |-> "Dreams Resort",
                  price_per_night |-> 16500, url |-> "https://booking.com/search"],
                 [source |-> <<"Hotels", ".com">>, hotel_name |-> "Secrets Resort",
                  price_per_night |-> 17250, url |-> "https://hotels.com/search"],
                 [source |-> <<"Expedia">>, hotel_name |-> "Breathless Resort",
                  price_per_night |-> 14250, url |-> "https://expedia.com/search"]>>,
   lowest_price |-> 14250, average_price |-> 16000, timestamp |-> "T-mock"]
BodyOther ==
  [destination |-> <<"Cancun">>, checkin |-> "2025-06-01",
   checkout |-> "2025-06-05", nights |-> 4,
   results |-> <<[source |-> <<"Despegar">>, hotel_name |-> "Now Resort",
                  price_per_night |-> 15000, url |-> "https://despegar.com/search"],
                 [source |-> <<"Kayak">>, hotel_name |-> "Zoetry Resort",
                  price_per_night |-> 15500, url |-> "https://kayak.com/search"]>>,
   lowest_price |-> 15000, average_price |-> 15250, timestamp |-> "T-other"]
\* a success body without the aggregate fields lowest_price, average_price
BodyNoAggregates ==
  [destination |-> <<"Cancun">>, checkin |-> "2025-06-01",
   checkout |-> "2025-06-05", nights |-> 4,
   results |-> <<[source |-> <<"Booking", ".com">>, hotel_name |-> "Dreams Resort",
                  price_per_night |-> 16500, url |-> "https://booking.com/search"],
                 [source |-> <<"Expedia">>, hotel_name |-> "Breathless Resort",
                  price_per_night |-> 14250, url |-> "https://expedia.com/search"],
                 [source |-> <<"Hotels", ".com">>, hotel_name |-> "Secrets Resort",
                  price_per_night |-> 17250, url |-> "https://hotels.com/search"]>>,
   timestamp |-> "T-bare"]
\* a 2xx body that does not follow the contract: no results array
BodyNoResults == [status |-> "online"]

OkBodies == {BodyMock, BodyOther, BodyNoAggregates, BodyNoResults}
ErrorBodies ==
  {[detail |-> "Service Unavailable"], [detail |-> "Rate limit exceeded"],
   [error |-> "Function error"]}

\* what one fetch of the quote endpoint can do
QuoteFetches ==
  {[k |-> "reject", name |-> "TypeError", message |-> "Failed to fetch"],
   [k |-> "reject", name |-> "TimeoutError", message |-> "The operation timed out"]}
    \cup {[k |-> "resp", ok |-> TRUE, parses |-> TRUE, body |-> b] : b \in OkBodies}
    \cup {[k |-> "resp", ok |-> FALSE, parses |-> TRUE, body |-> b] : b \in ErrorBodies}
    \cup {[k |-> "resp", ok |-> o, parses |-> FALSE, body |-> Null] : o \in BOOLEAN}

\* ---------------------------------------------------------- normalisation
Hotel(result, label) ==
  [name |-> result.hotel_name, source |-> label,
   price |-> result.price_per_night, url |-> result.url]

\* the body of the forEach callback of formatBackendPrices
ApplyResult(formatted, result) ==
  LET source == ToLowerCase(result.source)
  IN IF Includes(source, <<"booking">>)
     THEN [formatted EXCEPT !.prices.booking = result.price_per_night,
                            !.hotels = Append(@, Hotel(result, "Booking.com"))]
     ELSE IF Includes(source, <<"expedia">>)
     THEN [formatted EXCEPT !.prices.expedia = result.price_per_night,
                            !.hotels = Append(@, Hotel(result, "Expedia"))]
     ELSE IF Includes(source, <<"hotels">>)
     THEN [formatted EXCEPT !.prices.hotels = result.price_per_night,
                            !.hotels = Append(@, Hotel(result, "Hotels.com"))]
     ELSE formatted

RECURSIVE ApplyResults(_, _, _)
ApplyResults(formatted, results, i) ==
  IF i > Len(results) THEN formatted
  ELSE ApplyResults(ApplyResult(formatted, results[i]), results, i + 1)

\* the properties lowestPrice and averagePrice of the literal of
\* formatBackendPrices: copies of the aggregate fields of the body; a field
\* the body lacks is undefined, written as a property the record lacks
Aggregates(backendData) ==
  LET lo == "lowest_price" \in DOMAIN backendData
      av == "average_price" \in DOMAIN backendData
  IN IF lo /\ av THEN [lowestPrice |-> backendData.lowest_price,
                       averagePrice |-> backendData.average_price]
     ELSE IF lo THEN [lowestPrice |-> backendData.lowest_price]
     ELSE IF av THEN [averagePrice |-> backendData.average_price]
     ELSE [x \in {} |-> 0]

\* formatBackendPrices: throws when backendData.results is not an array
formatBackendPrices(backendData) ==
  IF "results" \notin DOMAIN backendData
  THEN ThrowAs("TypeError", "Cannot read properties of undefined")
  ELSE Value(ApplyResults(
         [destination |-> backendData.destination,
          checkin |-> backendData.checkin,
          checkout |-> backendData.checkout,
          nights |-> backendData.nights,
          timestamp |-> backendData.timestamp,
          prices |-> [booking |-> 0, expedia |-> 0, hotels |-> 0, despegar |-> 0],
          hotels |-> <<>>] @@ Aggregates(backendData),
         backendData.results, 1))

\* ------------------------------------------------------------ presentation
\* texts of the price-checker panel; NoText is an element not written yet
NoText == [t |-> "none"]
Text(n) == [t |-> "text", n |-> n]
DomInit == [booking |-> NoText, expedia |-> NoText, despegar |-> NoText,
            uvc |-> NoText, savings |-> NoText]

\* Number.prototype.toFixed(0) of a non-negative amount of cents, in dollars
FixedCents(c) == (c + 50) \div 100

\* uvcPrice = avgPublicPrice * (1 - 0.35), as a numerator over UvcDen:
\* avgPublicPrice in half cents (averagePrice || (booking + expedia) / 2)
UvcDen == 20000
\* AvgHalfCents without the fallback to the mean of booking and expedia
AvgHalfCentsNoMean(priceData) == 2 * NumOr(priceData, "averagePrice", 0)

AvgHalfCents(priceData) ==
  IF NumOr(priceData, "averagePrice", 0) # 0 THEN 2 * priceData.averagePrice
  ELSE priceData.prices.booking + priceData.prices.expedia
UvcPrice(priceData) == AvgHalfCents(priceData) * 65

\* toFixed(0) of n / UvcDen: nearest integer, halves away from zero
FixedUvc(n) ==
  IF n >= 0 THEN (n + UvcDen \div 2) \div UvcDen
  ELSE 0 - ((0 - n + UvcDen \div 2) \div UvcDen)

\* updatePriceCheckerUI: the panel after the call (hasPanel: the elements exist)
updatePriceCheckerUI(priceData, d, hasPanel) ==
  IF ~hasPanel THEN d
  ELSE
    [booking |-> IF priceData.prices.booking > 0
                 THEN Text(FixedCents(priceData.prices.booking)) ELSE d.booking,
     expedia |-> IF priceData.prices.expedia > 0
                 THEN Text(FixedCents(priceData.prices.expedia)) ELSE d.expedia,
     despegar |-> IF priceData.prices.despegar > 0
                  THEN Text(FixedCents(priceData.prices.despegar)) ELSE d.despegar,
     uvc |-> Text(FixedUvc(UvcPrice(priceData))),
     savings |-> IF NumOr(priceData, "lowestPrice", 0) # 0
                 THEN Text(FixedUvc(priceData.lowestPrice * 200 - UvcPrice(priceData)))
                 ELSE d.savings]

\* ------------------------------------------------------- getRealTimePrices
DefaultGuests == 2
DefaultRooms == 1

\* one POST to the quote endpoint, as handed to fetch
QuoteRequest(url, q, c) ==
  [kind |-> "quote", method |-> "POST", url |-> url,
   body |-> [destination |-> q.destination, checkin |-> q.checkin,
             checkout |-> q.checkout, guests |-> q.guests, rooms |-> q.rooms],
   timeout |-> c.timeout]

Fetch(req) == [k |-> "fetch", req |-> req]
Return(v) == [k |-> "return", v |-> v]

\* GrtBegin without the mode guard of line 100
GrtBeginUnguarded(c, q) ==
  Fetch(QuoteRequest(JsString(resolveApiUrl(c)) \o CheckPricesPath, q, c))

\* GrtBegin with a guard that tests the mode and not the endpoint
GrtBeginModeOnly(c, q) ==
  IF c.isGithubPages \/ c.mode = "static"
  THEN Throw("Modo estatico: sin backend disponible")
  ELSE Fetch(QuoteRequest(JsString(resolveApiUrl(c)) \o CheckPricesPath, q, c))

\* from the call to the first await: the guard, then the first request
GrtBegin(c, q) ==
  IF c.isGithubPages \/ c.mode = "static" \/ resolveApiUrl(c) = Null
  THEN Throw("Modo estatico: sin backend disponible")
  ELSE Fetch(QuoteRequest(JsString(resolveApiUrl(c)) \o CheckPricesPath, q, c))

\* response.json() of a settled response
ParseBody(f) ==
  IF f.parses THEN Return(f.body) ELSE ThrowAs("SyntaxError", "Unexpected token")

\* GrtAfterFirst that also turns to the fallback when the fetch is rejected
GrtAfterFirstRetrying(c, q, firstUrl, f) ==
  IF f.k = "reject" \/ ~f.ok
  THEN IF Includes(firstUrl, JsString(c.apiUrlPrimary))
       THEN Fetch(QuoteRequest(JsString(c.apiUrlFallback) \o CheckPricesPath, q, c))
       ELSE Throw("Error al obtener precios")
  ELSE ParseBody(f)

\* from the settling of the first request to the next await or the end
GrtAfterFirst(c, q, firstUrl, f) ==
  IF f.k = "reject" THEN ThrowAs(f.name, f.message)
  ELSE IF ~f.ok
  THEN IF Includes(firstUrl, JsString(c.apiUrlPrimary))
       THEN Fetch(QuoteRequest(JsString(c.apiUrlFallback) \o CheckPricesPath, q, c))
       ELSE LET error == IF f.parses THEN f.body
                         ELSE [detail |-> "Error desconocido"]
            IN Throw(StrOr(error, "detail", "Error al obtener precios"))
  ELSE ParseBody(f)

\* GrtAfterFallback with the test of fallbackResp.ok inverted
GrtAfterFallbackInverted(f) ==
  IF f.k = "reject" THEN ThrowAs(f.name, f.message)
  ELSE IF f.ok THEN Throw("Fallback tambien fallo")
  ELSE ParseBody(f)

\* from the settling of the fallback request to the end
GrtAfterFallback(f) ==
  IF f.k = "reject" THEN ThrowAs(f.name, f.message)
  ELSE IF ~f.ok THEN Throw("Fallback tambien fallo")
  ELSE ParseBody(f)

\* -------------------------------------------- refresh-prices: generation
Num(n) == [t |-> "num", n |-> n]
NaN == [t |-> "nan"]

Preset(d, ci, co) == [destination |-> d, checkin |-> ci, checkout |-> co]
PRESETS ==
  <<Preset(<<"Cancun">>, "2025-06-01", "2025-06-05"),
    Preset(<<"Cabo San Lucas">>, "2025-06-10", "2025-06-14"),
    Preset(<<"Punta Cana">>, "2025-07-01", "2025-07-06")>>

\* per source: the variance band, in hundredths
SourceNames == <<"booking", "expedia", "hotels", "despegar">>
SOURCE_VARIATION ==
  [booking |-> <<97, 105>>, expedia |-> <<95, 103>>,
   hotels |-> <<98, 106>>, despegar |-> <<96, 104>>]

\* the own properties of the object literal BASE_PRICE_BY_DEST, in dollars
BASE_PRICE_BY_DEST ==
  (<<"cancun">> :> 180) @@ (<<"cabo san lucas">> :> 210)
    @@ (<<"punta cana">> :> 160)

\* lower-case property names an object literal inherits from Object.prototype:
\* reading them gives a function or an object, which is truthy
InheritedKeys == {<<"constructor">>, <<"__proto__">>}
NotNumber == [t |-> "object"]

DefaultBase == 190
\* BASE_PRICE_BY_DEST[dest.toLowerCase()] || 190, in dollars
BasePrice(dest) ==
  LET key == ToLowerCase(dest)
  IN IF key \in DOMAIN BASE_PRICE_BY_DEST THEN Num(BASE_PRICE_BY_DEST[key])
     ELSE IF key \in InheritedKeys THEN NotNumber
     ELSE Num(DefaultBase)

\* new Date(s).getTime() in hours from 2025-06-01T00:00Z; NaN for no date
ParseDate(s) ==
  CASE s = "2025-06-01" -> Num(0)
    [] s = "2025-06-01T20:00Z" -> Num(20)
    [] s = "2025-06-02T06:00Z" -> Num(30)
    [] s = "2025-06-05" -> Num(96)
    [] s = "2025-06-10" -> Num(216)
    [] s = "2025-06-14" -> Num(312)
    [] s = "2025-07-01" -> Num(720)
    [] s = "2025-07-06" -> Num(840)
    [] OTHER -> NaN

\* Math.round of h / 24: the nearest integer, halves towards +infinity
RoundDays(h) == (2 * h + 24) \div 48

nights(checkin, checkout) ==
  LET ci == ParseDate(checkin)
      co == ParseDate(checkout)
  IN IF ci = NaN \/ co = NaN THEN NaN ELSE Num(RoundDays(co.n - ci.n))

\* Math.random() in thousandths, 0 <= r < 1000; a stream is the successive draws
RandomStreams ==
  {[i \in 1..12 |-> 0],
   [i \in 1..12 |-> 999],
   [i \in 1..12 |-> IF i % 2 = 1 THEN 0 ELSE 999],
   [i \in 1..12 |-> IF i % 3 = 1 THEN 500 ELSE 250]}

\* Math.round(base * (lo + r * (hi - lo))), in dollars
SourcePriceDraw(base, range, r) ==
  (base * (range[1] * 1000 + r * (range[2] - range[1])) + 50000) \div 100000

RECURSIVE SeqSum(_)
SeqSum(q) == IF q = <<>> THEN 0 ELSE Head(q) + SeqSum(Tail(q))
SeqMin(q) == SetMin({q[i] : i \in DOMAIN q})

\* generateEntry with the draws rs (one per source, in source order);
\* prices and metrics in cents; +(sum / 4).toFixed(2) is exact in cents;
\* a base that is not a number makes every product, and so every price, the
\* minimum and the mean, NaN
generateEntry(dest, checkin, checkout, rs) ==
  LET base == BasePrice(dest)
      numeric == base.t = "num"
      values == [j \in 1..Len(SourceNames) |->
                   SourcePriceDraw(base.n, SOURCE_VARIATION[SourceNames[j]], rs[j])]
  IN [destination |-> dest,
      checkin |-> checkin,
      checkout |-> checkout,
      nights |-> nights(checkin, checkout),
      sources |-> [n \in {SourceNames[j] : j \in DOMAIN SourceNames} |->
                     LET j == CHOOSE j \in DOMAIN SourceNames : SourceNames[j] = n
                     IN [price |-> IF numeric THEN Num(100 * values[j]) ELSE NaN,
                         currency |-> "USD"]],
      metrics |-> [lowest_price |->
                     IF numeric THEN Num(100 * SeqMin(values)) ELSE NaN,
                   average_price |->
                     IF numeric THEN Num((100 * SeqSum(values)) \div Len(values))
                     ELSE NaN]]

\* PRESETS.map(p => generateEntry(...)): the k-th preset takes the k-th four draws
GenerateAll(stream) ==
  [k \in DOMAIN PRESETS |->
     generateEntry(PRESETS[k].destination, PRESETS[k].checkin, PRESETS[k].checkout,
                   SubSeq(stream, 4 * (k - 1) + 1, 4 * k))]

\* ------------------------------------------------ refresh-prices: handler
BearerPrefix == <<"Bearer ">>

\* values of the Authorization header
AuthValues ==
  {<<"Bearer ", "s3cret">>,
   <<"Bearer ", " ", "s3cret">>,
   <<"Bearer ", "s3cret", " ">>,
   <<"Bearer ", "wrong">>,
   <<"Bearer ">>,
   <<"Bearer">>,
   <<"bearer ", "s3cret">>,
   <<"Basic ", "s3cret">>,
   <<>>}

\* event.headers
HeaderSets ==
  {[host |-> <<"uvc">>]}
    \cup {[authorization |-> a] : a \in AuthValues}
    \cup {[Authorization |-> a] : a \in {<<"Bearer ", "s3cret">>, <<"Bearer ", "wrong">>}}
    \cup {[authorization |-> <<>>, Authorization |-> <<"Bearer ", "s3cret">>]}

\* process.env.REFRESH_TOKEN
Secrets == {Undefined, Str(<<>>), Str(<<"s3cret">>), Str(<<" ", "s3cret">>)}

\* event.body: absent, empty, not JSON, or JSON text with the value v
Bodies ==
  {[k |-> "absent"], [k |-> "empty"], [k |-> "unparsable"]}
    \cup {[k |-> "json", v |-> v] : v \in
           {Null,
            [all |-> TRUE],
            [all |-> FALSE],
            [other |-> 1],
            [all |-> TRUE, destination |-> Str(<<"Tulum">>),
             checkin |-> "2025-06-01", checkout |-> "2025-06-05"],
            [destination |-> Str(<<"CANCUN">>),
             checkin |-> "2025-06-01T20:00Z", checkout |-> "2025-06-02T06:00Z"],
            [destination |-> Str(<<"Tulum">>),
             checkin |-> "2025-06-05", checkout |-> "someday"],
            [destination |-> Str(<<"Tulum">>), checkin |-> "2025-06-01"],
            [destination |-> Str(<<"constructor">>),
             checkin |-> "2025-06-01", checkout |-> "2025-06-05"],
            [destination |-> Num(7),
             checkin |-> "2025-06-01", checkout |-> "2025-06-05"]}}

\* headers['authorization'] || headers['Authorization']
AuthHeader(headers) ==
  IF "authorization" \in DOMAIN headers /\ headers.authorization # <<>>
  THEN Str(headers.authorization)
  ELSE IF "Authorization" \in DOMAIN headers THEN Str(headers.Authorization)
  ELSE Undefined

\* Provided without the trim
ProvidedUntrimmed(auth) == SubSeq(auth, Len(BearerPrefix) + 1, Len(auth))

\* auth.substring('Bearer '.length).trim()
Provided(auth) == Trim(SubSeq(auth, Len(BearerPrefix) + 1, Len(auth)))

\* event.body ? JSON.parse(event.body) : {}, {} when JSON.parse throws
ParsedBody(b) == IF b.k = "json" THEN b.v ELSE [other |-> 1]

Response(status, body) == [k |-> "response", statusCode |-> status, body |-> body]

\* JSON.stringify of a number: NaN becomes null
NumberToJson(v) == IF v = NaN THEN Null ELSE v

\* JSON.stringify of the payload and JSON.parse by the client
Stringify(payload) ==
  [payload EXCEPT !.entries =
     [i \in DOMAIN @ |->
        [@[i] EXCEPT
           !.nights = NumberToJson(@),
           !.sources = [n \in DOMAIN @ |->
                          [@[n] EXCEPT !.price = NumberToJson(@)]],
           !.metrics = [lowest_price |-> NumberToJson(@.lowest_price),
                        average_price |-> NumberToJson(@.average_price)]]]]

\* exports.handler of refresh-prices: the response, or the exception it
\* terminates with
RefreshResult(expected, headers, b, stream) ==
  LET auth == AuthHeader(headers)
  IN IF expected = Undefined \/ expected.s = <<>>
     THEN Response(500, [error |-> "Missing REFRESH_TOKEN env var"])
     ELSE IF auth = Undefined \/ auth.s = <<>> \/ ~StartsWith(auth.s, BearerPrefix)
     THEN Response(401, [error |-> "Missing Bearer token"])
     ELSE IF Provided(auth.s) # expected.s
     THEN Response(403, [error |-> "Invalid token"])
     ELSE
       LET body == ParsedBody(b)
       IN IF body = Null
          THEN ThrowAs("TypeError", "Cannot destructure property of null")
          ELSE
            LET all == "all" \in DOMAIN body /\ body.all
                triple == /\ "destination" \in DOMAIN body
                          /\ body.destination # Str(<<>>)
                          /\ body.destination # Num(0)
                          /\ "checkin" \in DOMAIN body /\ body.checkin # ""
                          /\ "checkout" \in DOMAIN body /\ body.checkout # ""
            IN IF ~all /\ triple /\ body.destination.t # "str"
               THEN ThrowAs("TypeError", "dest.toLowerCase is not a function")
               ELSE
                 LET entries ==
                       IF all THEN GenerateAll(stream)
                       ELSE IF triple
                       THEN <<generateEntry(body.destination.s, body.checkin,
                                            body.checkout, SubSeq(stream, 1, 4))>>
                       ELSE GenerateAll(stream)
                 IN Response(200, Stringify(
                      [generated_at |-> NowIso, entries |-> entries,
                       source |-> "refresh-function", count |-> Len(entries)]))

\* ------------------------------------------------------------------- state
Destinations == {<<"Cancun">>, <<"CANCUN">>, <<"Punta Cana">>}

IndLoading == "Buscando precios en tiempo real..."
IndFast == "Precios rapidos (cache) - Actualizando..."
IndStatic == "Modo estatico (cache)"
IndLive == "Actualizado - Precios en vivo"
IndOnlyCache == "Solo cache disponible"
IndError == "Error backend - usando cache"

None == [k |-> "none"]

VARIABLES
  config,          \* BACKEND_CONFIG
  hasIndicator,    \* the element #pc-last-updated exists
  hasPanel,        \* the price elements of the panel exist
  caller,          \* who called getRealTimePrices: "pipeline" or "direct"
  pc,              \* the await the running call is suspended at
  query,           \* the arguments of the running call
  firstUrl,        \* the local url of getRealTimePrices at its first request
  formattedCached, \* the local of updatePriceCheckerWithRealData
  net,             \* every request handed to fetch, in order
  cacheSeen,       \* how the fetch of prices-cache.json settled
  replies,         \* how the quote requests settled, in order
  grt,             \* how getRealTimePrices ended
  ret,             \* what updatePriceCheckerWithRealData returned
  exit,            \* the return statement it left through
  emitted,         \* the calls of updatePriceCheckerUI, in order
  indicator,       \* the text of #pc-last-updated
  dom,             \* the texts of the panel
  console,         \* the messages given to console.error
  probe,           \* where checkBackendHealth is: "idle", "await", "done"
  isAvailable,     \* what checkBackendHealth returned (read once probe is done)
  healthAtStart,   \* what the probe had reported when the running call began
  lookup,          \* two calls of findCachedEntry on one snapshot
  pair,            \* the locals of two resolutions running concurrently
  refreshReq,      \* the request the refresh function was invoked with
  refreshRes       \* what the refresh function answered

vars == <<config, hasIndicator, hasPanel, caller, pc, query, firstUrl,
          formattedCached, net, cacheSeen, replies, grt, ret, exit, emitted,
          indicator, dom, console, probe, isAvailable, healthAtStart, lookup,
          pair, refreshReq, refreshRes>>

browserVars == <<config, hasIndicator, hasPanel, caller, pc, query, firstUrl,
                 formattedCached, net, cacheSeen, replies, grt, ret, exit,
                 emitted, indicator, dom, console, healthAtStart>>
probeVars == <<probe, isAvailable>>

\* what checkBackendHealth has reported so far
HealthReport ==
  IF probe # "done" THEN "pending" ELSE IF isAvailable THEN "up" ELSE "down"
serverVars == <<refreshReq, refreshRes>>

\* two resolutions, the first for Cancun and the second for Punta Cana
PairResolutions == 1 .. 2
PairDestination(i) == IF i = 1 THEN <<"Cancun">> ELSE <<"Punta Cana">>

\* the locals of a resolution that has not been called yet
PairIdle ==
  [pc |-> "idle", formattedCached |-> Null, cacheSeen |-> None,
   firstUrl |-> <<>>, replies |-> <<>>, ret |-> None, exit |-> "none"]
PairInit == [i \in PairResolutions |-> PairIdle]

Init ==
  /\ config \in {BACKEND_CONFIG(e) : e \in Envs}
  /\ hasIndicator \in BOOLEAN
  /\ hasPanel \in BOOLEAN
  /\ caller = "none"
  /\ pc = "idle"
  /\ query = Null
  /\ firstUrl = <<>>
  /\ formattedCached = Null
  /\ net = <<>>
  /\ cacheSeen = None
  /\ replies = <<>>
  /\ grt = None
  /\ ret = None
  /\ exit = "none"
  /\ emitted = <<>>
  /\ indicator = ""
  /\ dom = DomInit
  /\ console = <<>>
  /\ probe = "idle"
  /\ isAvailable = FALSE
  /\ healthAtStart = "none"
  /\ lookup = None
  /\ pair = PairInit
  /\ refreshReq = None
  /\ refreshRes = None

Query(d) ==
  [destination |-> d, checkin |-> "2025-06-01", checkout |-> "2025-06-05",
   guests |-> DefaultGuests, rooms |-> DefaultRooms]

SetIndicator(text) == IF hasIndicator THEN text ELSE indicator

\* "return formattedCached" in the catch block: formattedCached is declared
\* with let inside the try block, so the name is not in scope in the catch
\* block and evaluating it throws
CatchReturn == ThrowAs("ReferenceError", "formattedCached is not defined")

\* the catch block of updatePriceCheckerWithRealData
PipelineCatch(logged) ==
  /\ console' = console \o logged
  /\ indicator' = SetIndicator(IF config.isGithubPages THEN IndOnlyCache
                               ELSE IndError)
  /\ ret' = CatchReturn
  /\ exit' = "catch"
  /\ pc' = "done"

\* PipelineLive presenting the cached result once more after the live one
PipelineLiveThenCache(backendData, logged) ==
  LET fb == formatBackendPrices(backendData)
  IN IF fb.k = "throw"
     THEN /\ PipelineCatch(logged \o <<fb.message>>)
          /\ UNCHANGED <<emitted, dom>>
     ELSE /\ emitted' = emitted \o <<[tier |-> "live", data |-> fb.v]>>
                          \o (IF formattedCached = Null THEN <<>>
                              ELSE <<[tier |-> "fast", data |-> formattedCached]>>)
          /\ dom' = updatePriceCheckerUI(fb.v, dom, hasPanel)
          /\ indicator' = SetIndicator(IndLive)
          /\ ret' = Return(fb.v)
          /\ exit' = "live"
          /\ pc' = "done"
          /\ console' = console \o logged

\* lines 250-257: normalise, present, return the live prices
PipelineLive(backendData, logged) ==
  LET fb == formatBackendPrices(backendData)
  IN IF fb.k = "throw"
     THEN /\ PipelineCatch(logged \o <<fb.message>>)
          /\ UNCHANGED <<emitted, dom>>
     ELSE /\ emitted' = Append(emitted, [tier |-> "live", data |-> fb.v])
          /\ dom' = updatePriceCheckerUI(fb.v, dom, hasPanel)
          /\ indicator' = SetIndicator(IndLive)
          /\ ret' = Return(fb.v)
          /\ exit' = "live"
          /\ pc' = "done"
          /\ console' = console \o logged

\* how a finished getRealTimePrices continues in its caller
GrtEnds(out) ==
  /\ grt' = out
  /\ IF caller = "direct"
     THEN /\ pc' = "done"
          /\ console' = console \o (IF out.k = "throw" THEN <<out.message>> ELSE <<>>)
          /\ UNCHANGED <<ret, exit, emitted, indicator, dom>>
     ELSE IF out.k = "throw"
     THEN /\ PipelineCatch(<<out.message, out.message>>)
          /\ UNCHANGED <<emitted, dom>>
     ELSE PipelineLive(out.v, <<>>)

\* updatePriceCheckerWithRealData up to its first await
StartResolution ==
  /\ pc = "idle"
  /\ \E d \in Destinations : query' = Query(d)
  /\ caller' = "pipeline"
  /\ indicator' = SetIndicator(IndLoading)
  /\ net' = Append(net, [kind |-> "cache", method |-> "GET",
                         url |-> <<"prices-cache.json">>])
  /\ pc' = "awaitCache"
  /\ healthAtStart' = HealthReport
  /\ UNCHANGED <<probeVars, lookup, pair, serverVars>>
  /\ UNCHANGED <<config, hasIndicator, hasPanel, firstUrl, formattedCached,
                 cacheSeen, replies, grt, ret, exit, emitted, dom, console>>

\* the cache fetch settles: lines 228-259 up to the await of the first request
CacheLoaded ==
  /\ pc = "awaitCache"
  /\ \E f \in CacheFetches :
       /\ cacheSeen' = f
       /\ LET cache == loadPricesCache(f)
              found == findCachedEntry(cache, query.destination,
                                       query.checkin, query.checkout)
          IN IF found.k = "throw"
             THEN /\ PipelineCatch(<<found.message>>)
                  /\ UNCHANGED <<formattedCached, emitted, dom, net, grt, firstUrl>>
             ELSE
               LET hit == found.v # Null /\ found.v # Undefined
                   fc == IF hit THEN formatCacheEntry(found.v) ELSE Null
                   em == IF hit THEN Append(emitted, [tier |-> "fast", data |-> fc])
                         ELSE emitted
                   dm == IF hit THEN updatePriceCheckerUI(fc, dom, hasPanel) ELSE dom
                   ind == IF hit THEN SetIndicator(IndFast) ELSE indicator
                   begin == GrtBegin(config, query)
               IN /\ formattedCached' = fc
                  /\ emitted' = em
                  /\ dom' = dm
                  /\ IF config.isGithubPages \/ config.mode = "static"
                     THEN /\ indicator' = SetIndicator(IndStatic)
                          /\ ret' = Return(fc)
                          /\ exit' = "static"
                          /\ pc' = "done"
                          /\ UNCHANGED <<net, grt, firstUrl, console>>
                     ELSE IF resolveApiUrl(config) # Null
                     THEN IF begin.k = "throw"
                          THEN /\ grt' = begin
                               /\ console' = console \o <<begin.message>>
                               /\ indicator' = SetIndicator(IndError)
                               /\ ret' = CatchReturn
                               /\ exit' = "catch"
                               /\ pc' = "done"
                               /\ UNCHANGED <<net, firstUrl>>
                          ELSE /\ net' = Append(net, begin.req)
                               /\ firstUrl' = begin.req.url
                               /\ indicator' = ind
                               /\ pc' = "awaitPrimary"
                               /\ UNCHANGED <<grt, ret, exit, console>>
                     ELSE /\ indicator' = ind
                          /\ ret' = Return(fc)
                          /\ exit' = "noapi"
                          /\ pc' = "done"
                          /\ UNCHANGED <<net, grt, firstUrl, console>>
  /\ UNCHANGED <<probeVars, healthAtStart, lookup, pair, serverVars>>
  /\ UNCHANGED <<config, hasIndicator, hasPanel, caller, query, replies>>

\* getRealTimePrices called on its own (window.UVCBackend.getRealTimePrices)
StartDirectCall ==
  /\ pc = "idle"
  /\ caller' = "direct"
  /\ \E d \in Destinations :
       LET begin == GrtBegin(config, Query(d))
       IN /\ query' = Query(d)
          /\ IF begin.k = "throw"
             THEN /\ grt' = begin
                  /\ pc' = "done"
                  /\ UNCHANGED <<net, firstUrl>>
             ELSE /\ net' = Append(net, begin.req)
                  /\ firstUrl' = begin.req.url
                  /\ pc' = "awaitPrimary"
                  /\ UNCHANGED grt
  /\ healthAtStart' = HealthReport
  /\ UNCHANGED <<probeVars, lookup, pair, serverVars>>
  /\ UNCHANGED <<config, hasIndicator, hasPanel, formattedCached, cacheSeen,
                 replies, ret, exit, emitted, indicator, dom, console>>

\* the first quote request settles
FirstSettled ==
  /\ pc = "awaitPrimary"
  /\ \E f \in QuoteFetches :
       LET next == GrtAfterFirst(config, query, firstUrl, f)
       IN /\ replies' = Append(replies, f)
          /\ IF next.k = "fetch"
             THEN /\ net' = Append(net, next.req)
                  /\ pc' = "awaitFallback"
                  /\ UNCHANGED <<grt, ret, exit, emitted, indicator, dom, console>>
             ELSE /\ GrtEnds(next)
                  /\ UNCHANGED net
  /\ UNCHANGED <<probeVars, healthAtStart, lookup, pair, serverVars>>
  /\ UNCHANGED <<config, hasIndicator, hasPanel, caller, query, firstUrl,
                 formattedCached, cacheSeen>>

\* the request made after a failed first request settles
FallbackSettled ==
  /\ pc = "awaitFallback"
  /\ \E f \in QuoteFetches :
       /\ replies' = Append(replies, f)
       /\ GrtEnds(GrtAfterFallback(f))
  /\ UNCHANGED <<probeVars, healthAtStart, lookup, pair, serverVars>>
  /\ UNCHANGED <<config, hasIndicator, hasPanel, caller, query, firstUrl,
                 formattedCached, cacheSeen, net>>

\* one invocation of the refresh function
RefreshHandler ==
  /\ refreshRes = None
  /\ \E expected \in Secrets, headers \in HeaderSets, b \in Bodies,
        stream \in RandomStreams :
       /\ refreshReq' = [expected |-> expected, headers |-> headers,
                         body |-> b, stream |-> stream]
       /\ refreshRes' = RefreshResult(expected, headers, b, stream)
  /\ UNCHANGED <<browserVars, probeVars, lookup, pair>>

\* what the fetch of the health endpoint can do
HealthFetches ==
  {[k |-> "reject"], [k |-> "resp", ok |-> FALSE, parses |-> TRUE],
   [k |-> "resp", ok |-> TRUE, parses |-> TRUE],
   [k |-> "resp", ok |-> TRUE, parses |-> FALSE]}

\* the request of checkBackendHealth: a GET with an Accept header and no signal
HealthRequest(api) ==
  [kind |-> "health", method |-> "GET", url |-> api.s \o <<"/">>]

\* checkBackendHealth up to its fetch (initBackendConnection at DOMContentLoaded)
HealthStart ==
  /\ probe = "idle"
  /\ IF resolveApiUrl(config) = Null
     THEN /\ isAvailable' = FALSE
          /\ probe' = "done"
          /\ UNCHANGED net
     ELSE /\ net' = Append(net, HealthRequest(resolveApiUrl(config)))
          /\ probe' = "await"
          /\ UNCHANGED isAvailable
  /\ UNCHANGED <<config, hasIndicator, hasPanel, caller, pc, query, firstUrl,
                 formattedCached, cacheSeen, replies, grt, ret, exit, emitted,
                 indicator, dom, console, healthAtStart, lookup, pair, serverVars>>

\* checkBackendHealth once its fetch settles: true only for a success
\* response whose body parses; initBackendConnection only logs the result
HealthSettled ==
  /\ probe = "await"
  /\ \E f \in HealthFetches :
       isAvailable' = (f.k = "resp" /\ f.ok /\ f.parses)
  /\ probe' = "done"
  /\ UNCHANGED <<browserVars, lookup, pair, serverVars>>

\* the page: one resolution, or one direct call of getRealTimePrices, and
\* the health probe of the page load
Next ==
  \/ StartResolution
  \/ CacheLoaded
  \/ StartDirectCall
  \/ FirstSettled
  \/ FallbackSettled
  \/ HealthStart
  \/ HealthSettled

Spec == Init /\ [][Next]_vars

\* the refresh function
NextRefresh == RefreshHandler

SpecRefresh == Init /\ [][NextRefresh]_vars

\* the dates a lookup is asked for
LookupDates == {"2025-06-01", "2025-12-24"}

\* the arguments of one call of findCachedEntry
LookupArgs ==
  [destination : Destinations, checkin : LookupDates, checkout : LookupDates]

\* one call of findCachedEntry and what it gives
Lookup(cache, a) ==
  [destination |-> a.destination, checkin |-> a.checkin,
   checkout |-> a.checkout,
   out |-> findCachedEntry(cache, a.destination, a.checkin, a.checkout)]

\* two calls of findCachedEntry (window.UVCBackend.findCachedEntry) on the
\* same snapshot
FindEntry ==
  /\ lookup = None
  /\ \E cache \in Snapshots, a \in LookupArgs, b \in LookupArgs :
       lookup' = [cache |-> cache,
                  first |-> Lookup(cache, a), second |-> Lookup(cache, b)]
  /\ UNCHANGED <<browserVars, probeVars, pair, serverVars>>

NextLookup == FindEntry

SpecLookup == Init /\ [][NextLookup]_vars

\* ------------------------------------------- two concurrent resolutions
\* a snapshot holding an entry for each of the two destinations
SnapshotBoth == [entries |-> <<EntryCancun, EntryPuntaCanaNoMetrics>>]

\* what the fetch of prices-cache.json can do for either resolution
PairCacheFetches ==
  {[k |-> "notok"], [k |-> "json", v |-> SnapshotBoth],
   [k |-> "json", v |-> [entries |-> <<EntryNoDestination, EntryCancun>>]]}

\* what a quote request can do for either resolution
PairQuoteFetches ==
  {[k |-> "reject", name |-> "TypeError", message |-> "Failed to fetch"],
   [k |-> "resp", ok |-> TRUE, parses |-> TRUE, body |-> BodyMock],
   [k |-> "resp", ok |-> TRUE, parses |-> TRUE, body |-> BodyNoAggregates],
   [k |-> "resp", ok |-> FALSE, parses |-> TRUE,
    body |-> [detail |-> "Service Unavailable"]]}

PairQuery(i) == Query(PairDestination(i))

\* what the two resolutions leave alone: document, console and network are
\* the page's, shared by both
pairFrame == <<config, hasIndicator, hasPanel, caller, pc, query, firstUrl,
               formattedCached, cacheSeen, replies, grt, ret, exit, emitted,
               probeVars, healthAtStart, lookup, serverVars>>

\* resolution i leaves through a return statement
PairReturns(i, loc, value, through) ==
  pair' = [pair EXCEPT ![i] = [loc EXCEPT !.ret = value, !.exit = through,
                                          !.pc = "done"]]

\* the catch block of updatePriceCheckerWithRealData, for resolution i
PairCatch(i, loc, logged) ==
  /\ console' = console \o logged
  /\ indicator' = SetIndicator(IF config.isGithubPages THEN IndOnlyCache
                               ELSE IndError)
  /\ PairReturns(i, loc, CatchReturn, "catch")

\* lines 250-257 for resolution i
PairLive(i, loc, backendData) ==
  LET fb == formatBackendPrices(backendData)
  IN IF fb.k = "throw"
     THEN /\ PairCatch(i, loc, <<fb.message>>)
          /\ UNCHANGED dom
     ELSE /\ dom' = updatePriceCheckerUI(fb.v, dom, hasPanel)
          /\ indicator' = SetIndicator(IndLive)
          /\ PairReturns(i, loc, Return(fb.v), "live")
          /\ UNCHANGED console

\* how a finished getRealTimePrices continues in resolution i
PairGrtEnds(i, loc, out) ==
  IF out.k = "throw"
  THEN /\ PairCatch(i, loc, <<out.message, out.message>>)
       /\ UNCHANGED dom
  ELSE PairLive(i, loc, out.v)

\* updatePriceCheckerWithRealData is called: the second call is made while
\* the first one is still running or after it
PairStart ==
  /\ \E i \in PairResolutions :
       /\ pair[i].pc = "idle"
       /\ i = 2 => pair[1].pc # "idle"
       /\ pair' = [pair EXCEPT ![i].pc = "awaitCache"]
  /\ indicator' = SetIndicator(IndLoading)
  /\ net' = Append(net, [kind |-> "cache", method |-> "GET",
                         url |-> <<"prices-cache.json">>])
  /\ UNCHANGED <<dom, console, pairFrame>>

\* the cache fetch of one resolution settles
PairCacheLoaded ==
  /\ \E i \in PairResolutions, f \in PairCacheFetches :
       /\ pair[i].pc = "awaitCache"
       /\ LET q == PairQuery(i)
              found == findCachedEntry(loadPricesCache(f), q.destination,
                                       q.checkin, q.checkout)
              seen == [pair[i] EXCEPT !.cacheSeen = f]
          IN IF found.k = "throw"
             THEN /\ PairCatch(i, seen, <<found.message>>)
                  /\ UNCHANGED <<dom, net>>
             ELSE
               LET hit == found.v # Null /\ found.v # Undefined
                   fc == IF hit THEN formatCacheEntry(found.v) ELSE Null
                   ind == IF hit THEN SetIndicator(IndFast) ELSE indicator
                   loc == [seen EXCEPT !.formattedCached = fc]
                   begin == GrtBegin(config, q)
               IN /\ dom' = IF hit THEN updatePriceCheckerUI(fc, dom, hasPanel)
                            ELSE dom
                  /\ IF config.isGithubPages \/ config.mode = "static"
                     THEN /\ indicator' = SetIndicator(IndStatic)
                          /\ PairReturns(i, loc, Return(fc), "static")
                          /\ UNCHANGED <<net, console>>
                     ELSE IF resolveApiUrl(config) # Null
                     THEN IF begin.k = "throw"
                          THEN /\ console' = console \o <<begin.message>>
                               /\ indicator' = SetIndicator(IndError)
                               /\ PairReturns(i, loc, CatchReturn, "catch")
                               /\ UNCHANGED net
                          ELSE /\ net' = Append(net, begin.req)
                               /\ indicator' = ind
                               /\ pair' = [pair EXCEPT ![i] =
                                            [loc EXCEPT !.firstUrl = begin.req.url,
                                                        !.pc = "awaitPrimary"]]
                               /\ UNCHANGED console
                     ELSE /\ indicator' = ind
                          /\ PairReturns(i, loc, Return(fc), "noapi")
                          /\ UNCHANGED <<net, console>>
  /\ UNCHANGED pairFrame

\* the first quote request of one resolution settles
PairFirstSettled ==
  /\ \E i \in PairResolutions, f \in PairQuoteFetches :
       /\ pair[i].pc = "awaitPrimary"
       /\ LET next == GrtAfterFirst(config, PairQuery(i), pair[i].firstUrl, f)
              loc == [pair[i] EXCEPT !.replies = Append(@, f)]
          IN IF next.k = "fetch"
             THEN /\ net' = Append(net, next.req)
                  /\ pair' = [pair EXCEPT ![i] = [loc EXCEPT !.pc = "awaitFallback"]]
                  /\ UNCHANGED <<indicator, dom, console>>
             ELSE /\ PairGrtEnds(i, loc, next)
                  /\ UNCHANGED net
  /\ UNCHANGED pairFrame

\* the request one resolution made after a failed first request settles
PairFallbackSettled ==
  /\ \E i \in PairResolutions, f \in PairQuoteFetches :
       /\ pair[i].pc = "awaitFallback"
       /\ PairGrtEnds(i, [pair[i] EXCEPT !.replies = Append(@, f)],
                      GrtAfterFallback(f))
  /\ UNCHANGED net
  /\ UNCHANGED pairFrame

\* the page with two calls of updatePriceCheckerWithRealData in flight
NextPair ==
  \/ PairStart
  \/ PairCacheLoaded
  \/ PairFirstSettled
  \/ PairFallbackSettled

SpecPair == Init /\ [][NextPair]_vars

\* ------------------------------------------------------ derived vocabulary
Static == config.mode = "static" \/ config.isGithubPages

IsQuote(r) == r.kind = "quote"
QuoteRequests == SelectSeq(net, IsQuote)

PrimaryUrl == JsString(config.apiUrlPrimary) \o CheckPricesPath
FallbackUrl == JsString(config.apiUrlFallback) \o CheckPricesPath

NonSuccess(f) == f.k = "resp" /\ ~f.ok
\* a 2xx response whose body follows the success contract of the endpoint
Success(f) == f.k = "resp" /\ f.ok /\ f.parses /\ "results" \in DOMAIN f.body

\* the terminal outcome of a resolution, by the return statement taken
Outcome ==
  CASE exit \in {"static", "noapi"} -> "CacheOnly"
    [] exit = "live" -> "LiveAuthoritative"
    [] exit = "catch" /\ ret.k = "return" /\ ret.v # Null
         -> "CacheFallbackAfterError"
    [] exit = "catch" /\ ret.k = "return" /\ ret.v = Null -> "Unavailable"
    [] OTHER -> "none"

Resolved == caller = "pipeline" /\ pc = "done"

\* ------------------------------------------------------------------ claims

\* C1: in static mode no request ever goes to the quote endpoint: a resolution
\* never invokes getRealTimePrices, and a direct call of getRealTimePrices
\* throws before any request is made.
C1_StaticIssuesNoQuoteRequest ==
  Static =>
    /\ QuoteRequests = <<>>
    /\ replies = <<>>
    /\ (caller = "pipeline" => grt = None)
    /\ (caller = "direct" => pc = "done" /\ grt.k = "throw" /\ net = <<>>)

C1_Witness ==
  Static /\ Resolved /\ exit = "static" /\ formattedCached # Null

\* C2: one resolution presents at most two results, at most one of them the
\* fast cache result, and never a fast result after a live one.
C2_FastThenAuthoritative ==
  /\ Len(emitted) <= 2
  /\ Cardinality({i \in DOMAIN emitted : emitted[i].tier = "fast"}) <= 1
  /\ \A i, j \in DOMAIN emitted :
       emitted[i].tier = "live" /\ emitted[j].tier = "fast" => j < i

C2_Witness ==
  /\ Resolved
  /\ Len(emitted) = 2
  /\ emitted[1].tier = "fast"
  /\ emitted[2].tier = "live"

\* C3: after a non-success answer of the primary, with a fallback configured,
\* exactly one more request is made, to the fallback, with the same payload
\* and timeout; no call makes more than two quote requests and none asks the
\* fallback twice.
C3_OneFallbackAttempt ==
  /\ Len(QuoteRequests) <= 2
  /\ config.apiUrlFallback # Null =>
       Cardinality({i \in DOMAIN QuoteRequests :
                      QuoteRequests[i].url = FallbackUrl}) <= 1
  /\ ( /\ config.apiUrlPrimary # Null
       /\ config.apiUrlFallback # Null
       /\ replies # <<>>
       /\ NonSuccess(replies[1]) )
     => /\ Len(QuoteRequests) = 2
        /\ QuoteRequests[1].url = PrimaryUrl
        /\ QuoteRequests[2].url = FallbackUrl
        /\ QuoteRequests[2].body = QuoteRequests[1].body
        /\ QuoteRequests[2].timeout = QuoteRequests[1].timeout

\* C4: when the primary and then the fallback answer with a non-success
\* response, the error raised carries the detail of the fallback's error body
\* (a generic text only when that body has no detail).
C4_ErrorCarriesFallbackDetail ==
  ( /\ config.apiUrlPrimary # Null
    /\ Len(replies) = 2
    /\ NonSuccess(replies[1])
    /\ NonSuccess(replies[2]) )
  => /\ grt.k = "throw"
     /\ (replies[2].parses /\ "detail" \in DOMAIN replies[2].body
           => grt.message = replies[2].body.detail)

\* C5: in hybrid mode, primary non-success then fallback success ends in
\* LiveAuthoritative: the value returned, and the last result presented, is
\* the normalised fallback response.
C5_FallbackSuccessIsAuthoritative ==
  ( /\ Resolved
    /\ config.apiUrlPrimary # Null
    /\ Len(replies) = 2
    /\ NonSuccess(replies[1])
    /\ Success(replies[2]) )
  => /\ Outcome = "LiveAuthoritative"
     /\ ret = Return(formatBackendPrices(replies[2].body).v)
     /\ "lowest_price" \in DOMAIN replies[2].body
          => ret.v.lowestPrice = replies[2].body.lowest_price
     /\ ret.v.timestamp = replies[2].body.timestamp
     /\ emitted[Len(emitted)] = [tier |-> "live", data |-> ret.v]
     /\ QuoteRequests[2].url = FallbackUrl

C5_Witness ==
  /\ Resolved
  /\ config.mode = "hybrid"
  /\ config.apiUrlPrimary # Null
  /\ Len(replies) = 2
  /\ NonSuccess(replies[1])
  /\ Success(replies[2])
  /\ Len(emitted) = 2
  /\ emitted[1].tier = "fast"

\* C6: in hybrid mode, a cache match followed by the failure of every remote
\* attempt ends in CacheFallbackAfterError and returns exactly the entry that
\* was presented as the fast result.
C6_CacheFallbackUnmodified ==
  ( /\ Resolved
    /\ formattedCached # Null
    /\ grt.k = "throw" )
  => /\ Outcome = "CacheFallbackAfterError"
     /\ Len(emitted) = 1
     /\ emitted[1].tier = "fast"
     /\ ret = Return(emitted[1].data)
     /\ ret = Return(formattedCached)

\* C7: in hybrid mode, no cache match and a failed remote resolution end in an
\* outcome, a value the resolution returns, that carries the error, so that
\* the caller can tell it from a CacheOnly outcome without entry (which
\* returns null).
C7_UnavailableCarriesError ==
  ( /\ Resolved
    /\ config.mode = "hybrid"
    /\ formattedCached = Null
    /\ grt.k = "throw" )
  => ret.k = "return" /\ ret # Return(Null)

\* ---------------------------------------------- refresh: derived vocabulary
Refreshed == refreshRes # None
Answered(status) ==
  Refreshed /\ refreshRes.k = "response" /\ refreshRes.statusCode = status

ReqAuth == AuthHeader(refreshReq.headers)
HasSecret == refreshReq.expected # Undefined /\ refreshReq.expected.s # <<>>
HasBearer == ReqAuth # Undefined /\ StartsWith(ReqAuth.s, BearerPrefix)
\* the text that follows 'Bearer ' in the header
Supplied == SubSeq(ReqAuth.s, Len(BearerPrefix) + 1, Len(ReqAuth.s))

NoEntries == "entries" \notin DOMAIN refreshRes.body

\* C8: the handler answers 500 without a secret, else 401 without a Bearer
\* header, else 403 when the token it extracted differs from the secret; every
\* request is answered with exactly one of 500, 401, 403, 200.
C8_StatusOrder ==
  Refreshed =>
    /\ refreshRes.k = "response"
    /\ refreshRes.statusCode \in {500, 401, 403, 200}
    /\ (~HasSecret => refreshRes.statusCode = 500)
    /\ (HasSecret /\ ~HasBearer => refreshRes.statusCode = 401)
    /\ (HasSecret /\ HasBearer /\ Trim(Supplied) # refreshReq.expected.s
          => refreshRes.statusCode = 403)

C10_AllPresets ==
  ( /\ Refreshed
    /\ HasSecret
    /\ HasBearer
    /\ Supplied = refreshReq.expected.s
    /\ refreshReq.body = [k |-> "json", v |-> [all |-> TRUE]] )
  => /\ Answered(200)
     /\ {"generated_at", "entries", "count"} \subseteq DOMAIN refreshRes.body
     /\ Len(refreshRes.body.entries) = Len(PRESETS)
     /\ \A k \in DOMAIN PRESETS :
          /\ refreshRes.body.entries[k].destination = PRESETS[k].destination
          /\ refreshRes.body.entries[k].checkin = PRESETS[k].checkin
          /\ refreshRes.body.entries[k].checkout = PRESETS[k].checkout
     /\ refreshRes.body.count = Len(refreshRes.body.entries)

\* the error of the guard of getRealTimePrices
ModeUnavailable == Throw("Modo estatico: sin backend disponible")

\* the configuration has a mode other than hybrid, or no endpoint at all
NoBackendConfigured ==
  \/ config.mode # "hybrid"
  \/ config.apiUrlPrimary = Null /\ config.apiUrlFallback = Null

\* C11: when the mode is not hybrid, or neither the primary nor the fallback
\* endpoint is configured, a call of getRealTimePrices has ended with the
\* mode-unavailable error as soon as it was made, and no quote request was
\* issued and none settled.
C11_ModeUnavailableBeforeNetwork ==
  NoBackendConfigured =>
    /\ QuoteRequests = <<>>
    /\ replies = <<>>
    /\ grt \in {None, ModeUnavailable}
    /\ (caller = "direct" => pc = "done" /\ grt = ModeUnavailable)

C11_Witness ==
  /\ caller = "direct"
  /\ config.mode = "hybrid"
  /\ config.apiUrlPrimary = Null /\ config.apiUrlFallback = Null
  /\ grt = ModeUnavailable
  /\ QuoteRequests = <<>>

\* why a call of getRealTimePrices failed: by how its last request settled
TransportCaused ==
  grt.k = "throw" /\ replies # <<>> /\ replies[Len(replies)].k = "reject"
UpstreamCaused ==
  grt.k = "throw" /\ replies # <<>> /\ NonSuccess(replies[Len(replies)])
ModeCaused == grt.k = "throw" /\ replies = <<>>

\* the kind a caller sees: the name of the error that getRealTimePrices
\* throws for a rejected fetch, for a non-success response, and at its guard
TransportKinds ==
  {GrtAfterFallback(f).name : f \in {g \in QuoteFetches : g.k = "reject"}}
UpstreamKinds ==
  {GrtAfterFallback(f).name : f \in {g \in QuoteFetches : NonSuccess(g)}}
ModeKinds == {ModeUnavailable.name}

\* C12: a failure of getRealTimePrices caused by the transport, one caused by
\* a non-success response and one raised by the mode guard are reported as
\* three different kinds of error: the kind of each is never a kind that
\* either of the other two causes is reported as.
C12_ThreeErrorKinds ==
  /\ TransportCaused => grt.name \notin UpstreamKinds \cup ModeKinds
  /\ UpstreamCaused => grt.name \notin TransportKinds \cup ModeKinds
  /\ ModeCaused => grt.name \notin TransportKinds \cup UpstreamKinds

\* the messages the code uses when a non-success body carries no detail
GenericMessages == {"Error desconocido", "Error al obtener precios"}

\* no primary is configured, so the first request went to the fallback, and
\* it was answered with a non-success status
FallbackFirstFailed ==
  /\ caller # "none"
  /\ config.apiUrlPrimary = Null
  /\ config.apiUrlFallback # Null
  /\ replies # <<>>
  /\ NonSuccess(replies[1])

\* C13: when no primary is configured and the first request, sent to the
\* fallback, is answered with a non-success status, getRealTimePrices ends by
\* throwing an error whose message is the detail of that response (a generic
\* message when the body has no detail that can be read), and that request
\* is the only one made.
C13_FallbackOnlyDetail ==
  FallbackFirstFailed =>
    /\ Len(QuoteRequests) = 1
    /\ QuoteRequests[1].url = FallbackUrl
    /\ Len(replies) = 1
    /\ grt.k = "throw"
    /\ LET f == replies[1]
       IN IF f.parses /\ "detail" \in DOMAIN f.body
          THEN grt.message = f.body.detail
          ELSE grt.message \in GenericMessages

\* the terminal outcomes a resolution may end in
TerminalOutcomes ==
  {"CacheOnly", "LiveAuthoritative", "CacheFallbackAfterError", "Unavailable"}

\* C14: whatever the mode, the endpoints, the outcome of the cache load, the
\* contents of the cache and the outcomes of the remote requests, a
\* resolution that has ended has returned a value, has not thrown to its
\* caller, and its outcome is one of the four terminal outcomes.
C14_AlwaysReturnsOutcome ==
  Resolved => ret.k = "return" /\ Outcome \in TerminalOutcomes

\* the request is bounded by the configured timeout
Timed(r) == "timeout" \in DOMAIN r /\ r.timeout = config.timeout

\* C15: every request handed to the network (the load of the cache snapshot,
\* the health probe, the quote request to the primary and the one to the
\* fallback) carries the configured timeout, so that none can stay pending
\* for ever.
C15_EveryRequestTimed ==
  \A i \in DOMAIN net : Timed(net[i])

\* the positions of the entries of a snapshot whose destination is the
\* given one, letter case apart
Matching(cache, destination) ==
  {i \in DOMAIN cache.entries :
     /\ "destination" \in DOMAIN cache.entries[i]
     /\ ToLowerCase(cache.entries[i].destination) = ToLowerCase(destination)}

\* what a lookup is to give: no entry for an absent snapshot, for one without
\* an entries array and for one without matching entry, and otherwise the
\* first matching entry in the order of the snapshot
LookupGives(cache, call) ==
  /\ call.out.k = "value"
  /\ IF cache = Null \/ "entries" \notin DOMAIN cache
     THEN call.out.v = Null
     ELSE IF Matching(cache, call.destination) = {}
     THEN call.out.v \in {Null, Undefined}
     ELSE call.out.v = cache.entries[SetMin(Matching(cache, call.destination))]

\* C16: for every snapshot, findCachedEntry returns the first entry, in the
\* order of the snapshot, whose destination is the one asked for without
\* regard to letter case, and no entry when the snapshot is absent, has no
\* entries array or has no such entry; two destinations that differ only in
\* letter case get the same entry, whatever the dates of the two calls.
C16_LookupByDestination ==
  lookup # None =>
    /\ LookupGives(lookup.cache, lookup.first)
    /\ LookupGives(lookup.cache, lookup.second)
    /\ ToLowerCase(lookup.first.destination)
          = ToLowerCase(lookup.second.destination)
        => lookup.first.out = lookup.second.out

\* the lookup in the cache failed: the fetch of the snapshot was rejected,
\* answered with a non-success status or with a body that does not parse,
\* or the scan of the entries met an entry without destination
CacheLookupFailed ==
  /\ caller = "pipeline"
  /\ cacheSeen # None
  /\ \/ cacheSeen.k \in {"reject", "notok", "unparsable"}
     \/ findCachedEntry(loadPricesCache(cacheSeen), query.destination,
                        query.checkin, query.checkout).k = "throw"

\* C17: in hybrid mode with an endpoint, a failed cache lookup is treated as
\* an empty cache: nothing is presented as a fast result, the resolution does
\* not end at the lookup, and the quote request is made.
C17_LookupFailureIsNoCache ==
  ( /\ CacheLookupFailed
    /\ config.mode = "hybrid"
    /\ resolveApiUrl(config) # Null )
  => /\ formattedCached = Null
     /\ emitted = <<>> \/ emitted[1].tier # "fast"
     /\ Len(QuoteRequests) >= 1
     /\ QuoteRequests[1].body.destination = query.destination

\* the result has a value for the property
Known(p, f) == f \in DOMAIN p

\* the results handed to updatePriceCheckerUI
Presented == {emitted[i].data : i \in DOMAIN emitted}

\* an amount of cents as a numerator over UvcDen
OverUvcDen(cents) == cents * (UvcDen \div 100)

\* the static scenario: the cache entry of Cancun with booking 200,
\* expedia 190, lowest 190 and average 195 is resolved in static mode
StaticCancunScenario ==
  /\ Static
  /\ Resolved
  /\ emitted = <<[tier |-> "fast", data |-> formatCacheEntry(EntryCancun)]>>

SavingsShown(p) == updatePriceCheckerUI(p, DomInit, TRUE).savings

\* C19: for every result handed to the presentation, savings are reported
\* exactly when the lowest price of the result is above zero, never for a
\* lowest price that is missing, zero or negative, and the savings reported
\* are the lowest price less the club price.
C19_SavingsIffLowestPositive ==
  /\ \A p \in Presented :
       /\ SavingsShown(p) # NoText <=>
            Known(p, "lowestPrice") /\ p.lowestPrice > 0
       /\ SavingsShown(p) # NoText =>
            SavingsShown(p) = Text(FixedUvc(OverUvcDen(p.lowestPrice) - UvcPrice(p)))
  /\ hasPanel /\ Len(emitted) = 1 =>
       (dom.savings # NoText <=>
          /\ Known(emitted[1].data, "lowestPrice")
          /\ emitted[1].data.lowestPrice > 0)

\* the entry is for a stay whose checkin is a date before its checkout
StayForward(e) ==
  /\ ParseDate(e.checkin) # NaN
  /\ ParseDate(e.checkout) # NaN
  /\ ParseDate(e.checkin).n < ParseDate(e.checkout).n

\* C20: every generated entry whose checkin is before its checkout has as
\* nights the number of days between the two, rounded, and at least 1, also
\* when the two are less than half a day apart.
C20_NightsAtLeastOne ==
  Answered(200) =>
    \A i \in DOMAIN refreshRes.body.entries :
      LET e == refreshRes.body.entries[i]
      IN StayForward(e) =>
           /\ e.nights
                = Num(RoundDays(ParseDate(e.checkout).n - ParseDate(e.checkin).n))
           /\ e.nights.n >= 1

\* a resolution that ended by returning the normalised live response, and
\* the body and the results that response carried
LiveResolved == Resolved /\ exit = "live"
LiveBody == replies[Len(replies)].body
LiveResults == LiveBody.results

\* the canonical keys of the price map
CanonicalKeys == {"booking", "expedia", "hotels", "despegar"}

\* the source label of the result contains the key, letter case apart
Labelled(result, key) == Includes(ToLowerCase(result.source), <<key>>)

\* C21: in the normalised live result, every upstream result whose source
\* label contains one of booking, expedia, hotels, despegar, letter case
\* apart, has set the price of that key to its price per night.
C21_FourCanonicalKeys ==
  LiveResolved =>
    \A i \in DOMAIN LiveResults : \A key \in CanonicalKeys :
      Labelled(LiveResults[i], key) =>
        ret.v.prices[key] = LiveResults[i].price_per_night

\* the result carries a label that contains no canonical key
Unmatched(result) == \A key \in CanonicalKeys : ~Labelled(result, key)

\* the upstream results whose label contains a canonical key, in order
MatchedOnly(body) ==
  [body EXCEPT !.results = SelectSeq(@, LAMBDA r : ~Unmatched(r))]

\* C22: an upstream result whose label contains no canonical key leaves the
\* price map as it is without that result, and is still listed in hotels:
\* hotels has one element for each upstream result, in order.
C22_UnmatchedKeptInHotels ==
  LiveResolved =>
    /\ ret.v.prices = formatBackendPrices(MatchedOnly(LiveBody)).v.prices
    /\ Len(ret.v.hotels) = Len(LiveResults)
    /\ \A i \in DOMAIN LiveResults :
         ret.v.hotels[i].name = LiveResults[i].hotel_name

\* the per-source prices a body carries
ResultPrices(body) ==
  {body.results[i].price_per_night : i \in DOMAIN body.results}
RECURSIVE SetSum(_)
SetSum(S) == IF S = {} THEN 0 ELSE LET x == CHOOSE y \in S : TRUE
                                   IN x + SetSum(S \ {x})

\* C23: the normalised live result has as lowest and average price the
\* aggregate fields of the response when it carries them, and otherwise the
\* minimum and the mean of the per-source prices of the response.
C23_AggregatesOrRecomputed ==
  LiveResolved =>
    /\ Known(ret.v, "lowestPrice") /\ Known(ret.v, "averagePrice")
    /\ IF "lowest_price" \in DOMAIN LiveBody
       THEN ret.v.lowestPrice = LiveBody.lowest_price
       ELSE ret.v.lowestPrice = SetMin(ResultPrices(LiveBody))
    /\ IF "average_price" \in DOMAIN LiveBody
       THEN ret.v.averagePrice = LiveBody.average_price
       ELSE ret.v.averagePrice * Cardinality(ResultPrices(LiveBody))
              = SetSum(ResultPrices(LiveBody))

\* the base price as described: the table value of the lower-cased
\* destination, and the default for a destination the table does not have
TableBase(dest) ==
  IF ToLowerCase(dest) \in DOMAIN BASE_PRICE_BY_DEST
  THEN BASE_PRICE_BY_DEST[ToLowerCase(dest)] ELSE DefaultBase

\* round(base * bound) in cents, for a bound in hundredths
RoundedBound(base, bound) == 100 * ((base * bound + 50) \div 100)

\* the entry has one price per configured source, each a number within the
\* rounded ends of the band of its source
PricesInBands(e) ==
  /\ DOMAIN e.sources = {SourceNames[j] : j \in DOMAIN SourceNames}
  /\ \A n \in DOMAIN e.sources :
       /\ e.sources[n].price # Null
       /\ e.sources[n].price.n
            >= RoundedBound(TableBase(e.destination), SOURCE_VARIATION[n][1])
       /\ e.sources[n].price.n
            <= RoundedBound(TableBase(e.destination), SOURCE_VARIATION[n][2])

\* the lowest price of the entry is the least of its prices and is not
\* above its average price
LowestIsMinimum(e) ==
  /\ e.metrics.lowest_price # Null
  /\ e.metrics.average_price # Null
  /\ \E n \in DOMAIN e.sources : e.sources[n].price = e.metrics.lowest_price
  /\ \A n \in DOMAIN e.sources :
       e.sources[n].price # Null
       /\ e.metrics.lowest_price.n <= e.sources[n].price.n
  /\ e.metrics.lowest_price.n <= e.metrics.average_price.n

\* C24: every generated entry, for every destination and every outcome of the
\* random draws, has exactly one price per configured source, each within
\* round(base * lo) and round(base * hi) of the band of its source, base
\* being the table value of the lower-cased destination or the default 190;
\* its lowest price is the least of those prices and never above its average.
C24_PricesWithinBands ==
  Answered(200) =>
    \A i \in DOMAIN refreshRes.body.entries :
      /\ PricesInBands(refreshRes.body.entries[i])
      /\ LowestIsMinimum(refreshRes.body.entries[i])

\* C26: a resolution in hybrid mode that began after checkBackendHealth had
\* reported the backend unavailable issues no quote request.
C26_ProbeGatesLive ==
  ( /\ caller = "pipeline"
    /\ config.mode = "hybrid"
    /\ healthAtStart = "down" )
  => QuoteRequests = <<>>

\* a primary endpoint is configured, so the first quote request goes to it
PrimaryFirst == config.apiUrlPrimary # Null /\ replies # <<>>

Authorized ==
  Refreshed /\ HasSecret /\ HasBearer /\ Trim(Supplied) = refreshReq.expected.s

\* the fields of the request body: none for a body that is absent, empty,
\* not valid JSON or the JSON null
BodyHas(f) ==
  /\ refreshReq.body.k = "json"
  /\ refreshReq.body.v # Null
  /\ f \in DOMAIN refreshReq.body.v
BodyAll == BodyHas("all") /\ refreshReq.body.v.all
BodyTriple == BodyHas("destination") /\ BodyHas("checkin") /\ BodyHas("checkout")

\* the 200 response carries one entry per preset, in preset order
AnsweredAllPresets ==
  /\ Answered(200)
  /\ Len(refreshRes.body.entries) = Len(PRESETS)
  /\ \A k \in DOMAIN PRESETS :
       /\ refreshRes.body.entries[k].destination = PRESETS[k].destination
       /\ refreshRes.body.entries[k].checkin = PRESETS[k].checkin
       /\ refreshRes.body.entries[k].checkout = PRESETS[k].checkout

\* C28: an authorized refresh request is answered 200 with all presets when
\* 'all' is truthy, even if a complete triple is given too; with exactly one
\* entry, for the destination and dates given, when 'all' is not set and the
\* triple is complete; and with all presets when 'all' is not set and a field
\* of the triple is missing or the body is empty or not valid JSON.
C28_RefreshScope ==
  Authorized =>
    IF BodyAll THEN AnsweredAllPresets
    ELSE IF BodyTriple
    THEN /\ Answered(200)
         /\ Len(refreshRes.body.entries) = 1
         /\ Str(refreshRes.body.entries[1].destination)
              = refreshReq.body.v.destination
         /\ refreshRes.body.entries[1].checkin = refreshReq.body.v.checkin
         /\ refreshRes.body.entries[1].checkout = refreshReq.body.v.checkout
    ELSE AnsweredAllPresets

\* hybrid mode with neither a primary nor a fallback endpoint
NoEndpoint == config.mode = "hybrid" /\ resolveApiUrl(config) = Null

\* what the snapshot the resolution loaded holds for its query
CacheLookup ==
  findCachedEntry(loadPricesCache(cacheSeen), query.destination,
                  query.checkin, query.checkout)
CacheDerived ==
  IF CacheLookup.v # Null /\ CacheLookup.v # Undefined
  THEN formatCacheEntry(CacheLookup.v) ELSE Null

\* C29: in hybrid mode with no usable endpoint a resolution sends no quote
\* request and returns the cache-derived result, or null when the cache has
\* no match, without entering the error path.
C29_NoEndpointCacheOnly ==
  (Resolved /\ NoEndpoint) =>
    /\ QuoteRequests = <<>>
    /\ exit = "noapi"
    /\ console = <<>>
    /\ CacheLookup.k = "value"
    /\ ret = Return(CacheDerived)

\* both resolutions have returned or thrown
PairDone == \A i \in PairResolutions : pair[i].pc = "done"

\* resolution i run alone on what its own requests gave it: its cache
\* lookup, how its getRealTimePrices ends, and the statement it leaves through
AloneLookup(i) ==
  findCachedEntry(loadPricesCache(pair[i].cacheSeen), PairQuery(i).destination,
                  PairQuery(i).checkin, PairQuery(i).checkout)
AloneHit(i) == AloneLookup(i).v # Null /\ AloneLookup(i).v # Undefined
AloneCached(i) == IF AloneHit(i) THEN formatCacheEntry(AloneLookup(i).v) ELSE Null
AloneGrt(i) ==
  LET begin == GrtBegin(config, PairQuery(i))
      first == GrtAfterFirst(config, PairQuery(i), begin.req.url,
                             pair[i].replies[1])
  IN IF first.k = "fetch" THEN GrtAfterFallback(pair[i].replies[2]) ELSE first
AlonePath(i) ==
  IF AloneLookup(i).k = "throw" THEN "catch"
  ELSE IF config.isGithubPages \/ config.mode = "static" THEN "static"
  ELSE IF resolveApiUrl(config) = Null THEN "noapi"
  ELSE IF AloneGrt(i).k = "throw" THEN "catch"
  ELSE IF formatBackendPrices(AloneGrt(i).v).k = "throw" THEN "catch"
  ELSE "live"
AloneLive(i) == formatBackendPrices(AloneGrt(i).v).v
AloneReturn(i) ==
  CASE AlonePath(i) = "catch" -> CatchReturn
    [] AlonePath(i) = "live" -> Return(AloneLive(i))
    [] OTHER -> Return(AloneCached(i))

\* the panel and the status text resolution i run alone leaves behind, on a
\* page showing d and ind when it is called
AlonePanel(i, d) ==
  IF AloneLookup(i).k = "throw" THEN d
  ELSE LET fast == IF AloneHit(i)
                   THEN updatePriceCheckerUI(AloneCached(i), d, hasPanel) ELSE d
       IN IF AlonePath(i) = "live"
          THEN updatePriceCheckerUI(AloneLive(i), fast, hasPanel) ELSE fast
AloneIndicator(i, ind) ==
  IF ~hasIndicator THEN ind
  ELSE CASE AlonePath(i) = "catch" ->
              IF config.isGithubPages THEN IndOnlyCache ELSE IndError
         [] AlonePath(i) = "static" -> IndStatic
         [] AlonePath(i) = "live" -> IndLive
         [] OTHER -> IF AloneHit(i) THEN IndFast ELSE IndLoading

\* what each of the two resolutions returned is what it returns run alone
PairReturnsAsAlone ==
  \A i \in PairResolutions : pair[i].ret = AloneReturn(i)

\* C25: two resolutions for different destinations running concurrently are
\* independent under every interleaving: each returns what it returns run
\* alone, and once both have finished the page is as if the first had run
\* alone and then the second, so that the resolution called earlier has not
\* overwritten what the later one produced.
C25_ConcurrentResolutionsIndependent ==
  PairDone =>
    /\ PairReturnsAsAlone
    /\ dom = AlonePanel(2, AlonePanel(1, DomInit))
    /\ indicator = AloneIndicator(2, AloneIndicator(1, ""))
====
